---- MODULE Spec2Model ----
(***************************************************************************)
(* A model of the statemachine package: the construction of the transition *)
(* table and of the handler registry (NewStateMachine), the queries Can    *)
(* and Cannot, and the two mutating operations Event and Excute, with the  *)
(* handlers as callbacks that may do whatever the Event object allows.     *)
(*                                                                         *)
(* Go calls are modelled with an explicit call stack: a frame per running  *)
(* Event, Excute, startState closure or handler.  Only the top frame runs. *)
(* Event.StateMachine (there is one machine) and Event.Args (opaque to the *)
(* engine) are left out of the Event object.                               *)
(***************************************************************************)
EXTENDS Integers, Sequences, FiniteSets, TLC

\* ------------------------------------------------------------------------
\* Bounds
\* ------------------------------------------------------------------------

\* How often handlers may call back into the machine (Event or Excute
\* through event.StateMachine) in the course of one call by the caller.
MaxCallbacks == 1

\* ------------------------------------------------------------------------
\* handlerType (iota constants)
\* ------------------------------------------------------------------------
noHandler == 0
beforeEvent == 1
leaveState == 2
enterState == 3
afterEvent == 4

\* The nil error.
NoErr == "<nil>"

\* The error values a handler stores into Event.Err.
HandlerErrs == {"error"}

\* ------------------------------------------------------------------------
\* strings.HasPrefix / strings.TrimPrefix
\* ------------------------------------------------------------------------
HasPrefix(s, prefix) ==
    /\ Len(s) >= Len(prefix)
    /\ SubSeq(s, 1, Len(prefix)) = prefix

TrimPrefix(s, prefix) ==
    IF HasPrefix(s, prefix) THEN SubSeq(s, Len(prefix) + 1, Len(s)) ELSE s

\* ------------------------------------------------------------------------
\* NewStateMachine: the transition table
\* ------------------------------------------------------------------------

\* stateKey{event, src}
stateKey(event, src) == <<event, src>>

\* m[k] = v of a Go map: a later write to the same key replaces the entry.
MapSetKeepFirst(m, k, v) ==
    [x \in (DOMAIN m) \cup {k} |-> IF x \in DOMAIN m THEN m[x] ELSE v]

MapSet(m, k, v) == [x \in (DOMAIN m) \cup {k} |-> IF x = k THEN v ELSE m[x]]

EmptyMap == [x \in {} |-> x]

\* The inner loop over event.Src, writing machine.states.
RECURSIVE AddSources(_, _, _)
AddSources(table, desc, i) ==
    IF i > Len(desc.Src) THEN table
    ELSE AddSources(MapSet(table, stateKey(desc.Name, desc.Src[i]), desc.Dst),
                    desc, i + 1)

\* The outer loop over events, writing machine.states.
RECURSIVE BuildStates(_, _, _)
BuildStates(table, events, i) ==
    IF i > Len(events) THEN table
    ELSE BuildStates(AddSources(table, events[i], 1), events, i + 1)

\* allEvents: every descriptor's name, also of a descriptor with no source.
AllEvents(events) == {events[i].Name : i \in 1..Len(events)}

\* allStates: the sources and the destination of every descriptor that has
\* at least one source (both are recorded inside the loop over Src).
AllStates(events) ==
    UNION { UNION { {events[i].Src[j], events[i].Dst} :
                        j \in 1..Len(events[i].Src) } :
                i \in 1..Len(events) }

\* ------------------------------------------------------------------------
\* NewStateMachine: the handler registry
\* ------------------------------------------------------------------------

\* handlerKey{target, handlerType}
handlerKey(target, handlerType) == <<target, handlerType>>

\* One arm of the switch for a prefixed name: the generic word gives the
\* empty target, a known name gives that name, anything else noHandler.
PrefixedKey(handlerName, prefix, generic, known, type) ==
    LET target == TrimPrefix(handlerName, prefix)
    IN  IF target = generic THEN handlerKey("", type)
        ELSE IF target \in known THEN handlerKey(target, type)
        ELSE handlerKey(target, noHandler)

\* The switch of the handler loop: the key a raw handler name resolves to.
Classify(handlerName, allEvents, allStates) ==
    IF HasPrefix(handlerName, "before_")
      THEN PrefixedKey(handlerName, "before_", "event", allEvents, beforeEvent)
    ELSE IF HasPrefix(handlerName, "leave_")
      THEN PrefixedKey(handlerName, "leave_", "state", allStates, leaveState)
    ELSE IF HasPrefix(handlerName, "enter_")
      THEN PrefixedKey(handlerName, "enter_", "state", allStates, enterState)
    ELSE IF HasPrefix(handlerName, "after_")
      THEN PrefixedKey(handlerName, "after_", "event", allEvents, afterEvent)
    ELSE IF handlerName \in allStates
      THEN handlerKey(handlerName, enterState)
    ELSE IF handlerName \in allEvents
      THEN handlerKey(handlerName, afterEvent)
    ELSE handlerKey(handlerName, noHandler)

\* The key of a raw name of the Handlers map, given the descriptor list.
KeyOf(handlerName, events) ==
    Classify(handlerName, AllEvents(events), AllStates(events))

\* The keys written to machine.handlers (handlerType != noHandler).
RegisteredKeys(names, events) ==
    {k \in {KeyOf(n, events) : n \in names} : k[2] # noHandler}

\* The raw names of the Handlers map that resolve to key.
NamesOf(key, names, events) == {n \in names : KeyOf(n, events) = key}

\* The registries the handler loop can build over the given keys.  Go
\* ranges over the Handlers map in an unspecified order and a later write
\* to a key replaces the earlier one, so a key that several raw names
\* resolve to may end up with the callback of any of them; the registry
\* maps a key to the raw name whose callback it holds.
RECURSIVE RegistriesOver(_, _, _)
RegistriesOver(keys, names, events) ==
    IF keys = {} THEN {EmptyMap}
    ELSE LET key == CHOOSE k \in keys : TRUE
         IN  {MapSet(h, key, n) :
                 h \in RegistriesOver(keys \ {key}, names, events),
                 n \in NamesOf(key, names, events)}

Registries(names, events) ==
    RegistriesOver(RegisteredKeys(names, events), names, events)

\* ------------------------------------------------------------------------
\* Construction inputs
\* ------------------------------------------------------------------------
EventDesc(name, src, dst) == [Name |-> name, Src |-> src, Dst |-> dst]

\* A machine with a transition in each direction and a self-loop, as in
\* TestAsyncExcuteInProgress and TestSameState, and with an event that is
\* declared with an empty Src slice.
RunEvents ==
    << EventDesc("run", <<"start">>, "end"),
       EventDesc("reset", <<"end">>, "start"),
       EventDesc("stay", <<"start">>, "start"),
       EventDesc("halt", <<>>, "end") >>

\* The eight handler names of ExampleNewStateMachine, for the run event.
RunHandlers ==
    { "before_run", "before_event", "leave_start", "leave_state",
      "enter_end", "enter_state", "after_run", "after_event" }

\* The arguments of NewStateMachine that are explored.
Inputs ==
    { [initial |-> "start", events |-> RunEvents, names |-> ns] :
          ns \in SUBSET RunHandlers }

\* The handler sets explored with callbacks that call back into the
\* machine: none, one handler alone, the general before_ and leave_
\* handlers together, and all eight.
ReentrantInputs ==
    { in \in Inputs :
        \/ Cardinality(in.names) <= 1
        \/ in.names = {"before_event", "leave_state"}
        \/ in.names = RunHandlers }

\* An event name that no descriptor declares (TestInvalidEvent).
UndeclaredEvent == "lock"

\* Bound: the longest descriptor list NewStateMachine is called with where
\* the construction itself is explored.
MaxDescs == 2

\* Event and state names of those descriptor lists; "s" is both.
ConstructEvents == {"go", "s"}

ConstructStates == {"s", "t"}

\* The Src slices: none, one and two sources (TestMultipleSources).
SrcChoices == {<<>>, <<"s">>, <<"t">>, <<"s", "t">>}

Descs ==
    {EventDesc(n, src, d) :
        n \in ConstructEvents, src \in SrcChoices, d \in ConstructStates}

DescLists == UNION {[1..k -> Descs] : k \in 0..MaxDescs}

\* Raw handler names: every prefix and none, followed by an event name, a
\* state name or a name that is neither, and the four general names.
RawNames ==
    {p \o r : p \in {"before_", "leave_", "enter_", "after_", ""},
              r \in ConstructEvents \cup ConstructStates \cup {"x"}}
    \cup {"before_event", "leave_state", "enter_state", "after_event"}

\* The Handlers maps: empty, one name, or the full and the short form of
\* a name together (TestSpecificHandlersShortform has the short form).
NameSets ==
    {{}} \cup {{n} : n \in RawNames}
    \cup {{p \o r, r} : p \in {"enter_", "after_"},
                        r \in ConstructEvents \cup ConstructStates}

ConstructInputs ==
    {[initial |-> "s", events |-> l, names |-> ns] :
        l \in DescLists, ns \in NameSets}

\* ------------------------------------------------------------------------
\* State
\* ------------------------------------------------------------------------
VARIABLES
    input,       \* the arguments NewStateMachine was called with
    current,     \* machine.current
    states,      \* machine.states: stateKey -> destination
    handlers,    \* machine.handlers: handlerKey -> raw name of the callback
    startState,  \* machine.startState: the closure, or NilFunc
    heap,        \* the Event objects that are still referenced, by address
    trace,       \* per Event object: the handler invocations it was passed to
    stack,       \* the Go call stack, the running frame last
    ret,         \* the value returned by the call that returned last
    callbacks,   \* calls made by handlers since the caller's last call
    attempt      \* what became of the last transition attempt that got
                 \* past its before_ handlers

vars == <<input, current, states, handlers, startState, heap, trace, stack,
          ret, callbacks, attempt>>

\* A nil func().  The closure captures eventName, dst and the event pointer.
NilFunc == [eventName |-> "", dst |-> "", event |-> 0]

\* func() { ... } at the assignment to machine.startState.
Closure(eventName, dst, event) ==
    [eventName |-> eventName, dst |-> dst, event |-> event]

\* &Event{machine, eventName, machine.current, dst, nil, args, false, false}
NewEventSwapped(eventName, src, dst) ==
    [Name |-> eventName, Src |-> dst, Dst |-> src, Err |-> NoErr,
     canceled |-> FALSE, async |-> FALSE]

NewEvent(eventName, src, dst) ==
    [Name |-> eventName, Src |-> src, Dst |-> dst, Err |-> NoErr,
     canceled |-> FALSE, async |-> FALSE]

NoEvent == NewEvent("", "", "")

\* fmt.Errorf of Event and Excute.
ErrInProgress(eventName) ==
    "event " \o eventName
        \o " inappropriate because previous startState did not complete"

ErrInappropriate(eventName, state) ==
    "event " \o eventName \o " inappropriate in current state " \o state

ErrNotExist(eventName) == "event " \o eventName \o " does not exist"

ErrInternal == "internal error on state startState"

ErrNoTransitionNil == NoErr

ErrNoTransition ==
    "startState inappropriate because no state change in progress"

\* A stack frame.  fn is the function running, pc the statement it is at;
\* eventName, dst and event are its locals (for the closure: the captured
\* variables; for a handler: the event argument and, in key and idx, the
\* registry key it was looked up under and its entry in the event's trace).
\* cur0 and pend0 remember machine.current and whether a transition was
\* pending when the function was called.
Frame(fn, pc, eventName, dst, event, key, idx) ==
    [fn |-> fn, pc |-> pc, eventName |-> eventName, dst |-> dst,
     event |-> event, key |-> key, idx |-> idx,
     cur0 |-> current, pend0 |-> startState # NilFunc]

NoKey == handlerKey("", noHandler)

Top == stack[Len(stack)]

Pop == SubSeq(stack, 1, Len(stack) - 1)

SetTop(stk, f) == [stk EXCEPT ![Len(stk)] = f]

\* The value a call returns, with what the call was and what it did:
\* line is the source line of the return statement, event and calls the
\* Event object of the call and the handler invocations it was passed to.
Result(op, eventName, err, ok, line, cur0, pend0, event, calls) ==
    [op |-> op, eventName |-> eventName, err |-> err, ok |-> ok,
     line |-> line, cur0 |-> cur0, pend0 |-> pend0,
     event |-> event, calls |-> calls]

NoResult == Result("", "", NoErr, FALSE, 0, "", FALSE, NoEvent, <<>>)

\* The Event objects still referenced from a stack or a stored closure.
Live(stk, ss) == ({stk[i].event : i \in 1..Len(stk)} \cup {ss.event}) \ {0}

\* Garbage collection: an object nothing refers to is gone.
Collect(f, stk, ss) == [a \in (DOMAIN f) \cap Live(stk, ss) |-> f[a]]

\* The address of a fresh object.
FreshAddr == CHOOSE a \in 1..(Cardinality(DOMAIN heap) + 1) :
                 /\ a \notin DOMAIN heap
                 /\ \A b \in 1..(a - 1) : b \in DOMAIN heap

\* ------------------------------------------------------------------------
\* NewStateMachine
\* ------------------------------------------------------------------------
NewStateMachine(in) ==
    /\ input = in
    /\ current = input.initial
    /\ states = BuildStates(EmptyMap, input.events, 1)
    /\ handlers \in Registries(input.names, input.events)
    /\ startState = NilFunc
    /\ heap = EmptyMap
    /\ trace = EmptyMap
    /\ stack = <<>>
    /\ ret = NoResult
    /\ callbacks = 0
    /\ attempt = "none"

Init == \E in \in Inputs : NewStateMachine(in)

InitReentrant == \E in \in ReentrantInputs : NewStateMachine(in)

\* The event names a caller passes to Can, Cannot and Event.
CallNames == AllEvents(input.events) \cup {UndeclaredEvent}

\* ------------------------------------------------------------------------
\* Can, Cannot
\* ------------------------------------------------------------------------
CanIgnoringPending(event) == stateKey(event, current) \in DOMAIN states

CanResult(event) ==
    /\ stateKey(event, current) \in DOMAIN states
    /\ startState = NilFunc

CannotResult(event) == ~CanResult(event)

Can(event) ==
    /\ stack = <<>>
    /\ ret' = Result("Can", event, NoErr, CanResult(event), 137, current,
                     startState # NilFunc, NoEvent, <<>>)
    /\ UNCHANGED <<input, attempt, current, states, handlers, startState,
                   heap, trace, stack, callbacks>>

Cannot(event) ==
    /\ stack = <<>>
    /\ ret' = Result("Cannot", event, NoErr, CannotResult(event), 143,
                     current, startState # NilFunc, NoEvent, <<>>)
    /\ UNCHANGED <<input, attempt, current, states, handlers, startState,
                   heap, trace, stack, callbacks>>

\* ------------------------------------------------------------------------
\* Calls and returns
\* ------------------------------------------------------------------------

\* A call that returns before it calls anything: only its result is left.
ReturnAtOnce(stk, result) ==
    /\ ret' = result
    /\ stack' = stk
    /\ UNCHANGED <<input, attempt, current, states, handlers, startState,
                   heap, trace>>

\* if handler, ok := machine.handlers[key]; ok { handler(event) ... }
\* for a key that is registered: the frame f goes on at retpc when the
\* handler returns.
CallHandler(f, key, retpc) ==
    /\ stack' = SetTop(stack, [f EXCEPT !.pc = retpc])
                  \o <<Frame("handler", "body", "", "", f.event, key,
                             Len(trace[f.event]) + 1)>>
    /\ trace' = [trace EXCEPT ![f.event] =
                    Append(@, [key |-> key, name |-> handlers[key],
                               at |-> current,
                               Cancel |-> FALSE, Async |-> FALSE])]

\* What a return of Event at the given line makes of the attempt: the
\* returns of the before_ handlers end an attempt that never got past them.
Outcome(line) ==
    CASE line \in {194, 200} -> attempt
      [] line \in {230, 239} -> "canceled"
      [] line \in {232, 241} -> "deferred"
      [] line = 248 -> "failed"
      [] line = 251 -> "completed"

\* return err, at the given line of Event; ss is machine.startState then.
EventReturn(f, err, line, ss) ==
    /\ startState' = ss
    /\ stack' = Pop
    /\ ret' = Result("Event", f.eventName, err, FALSE, line, f.cur0, f.pend0,
                     heap[f.event], trace[f.event])
    /\ heap' = Collect(heap, Pop, ss)
    /\ trace' = Collect(trace, Pop, ss)
    /\ attempt' = Outcome(line)
    /\ UNCHANGED <<input, current, states, handlers>>

\* ------------------------------------------------------------------------
\* Event
\* ------------------------------------------------------------------------

\* if machine.startState != nil
NeverBusy == FALSE

Busy == startState # NilFunc

\* The loop over machine.states that looks for an entry of the event.
FoundDeclared(eventName) == eventName \in AllEvents(input.events)

Found(eventName) == \E state \in DOMAIN states : state[1] = eventName

\* if machine.current == dst
NeverSameState(dst) == FALSE

SameState(dst) == current = dst

\* Event, from its first line to the construction of the Event object: the
\* busy check, the lookup, the check for a transition to the same state.
\* stk is the caller's stack.
EventCall(stk, eventName) ==
    IF Busy
    THEN ReturnAtOnce(stk, Result("Event", eventName,
                                  ErrInProgress(eventName), FALSE, 165,
                                  current, TRUE, NoEvent, <<>>))
    ELSE IF stateKey(eventName, current) \notin DOMAIN states
    THEN IF Found(eventName)
         THEN ReturnAtOnce(stk, Result("Event", eventName,
                                       ErrInappropriate(eventName, current),
                                       FALSE, 178, current, FALSE,
                                       NoEvent, <<>>))
         ELSE ReturnAtOnce(stk, Result("Event", eventName,
                                       ErrNotExist(eventName), FALSE, 180,
                                       current, FALSE, NoEvent, <<>>))
    ELSE LET dst == states[stateKey(eventName, current)]
             addr == FreshAddr
         IN  IF SameState(dst)
             THEN ReturnAtOnce(stk, Result("Event", eventName, NoErr, FALSE,
                                           185, current, FALSE,
                                           NoEvent, <<>>))
             ELSE /\ heap' = MapSet(heap, addr,
                                    NewEvent(eventName, current, dst))
                  /\ trace' = MapSet(trace, addr, <<>>)
                  /\ stack' = stk \o <<Frame("Event", "before1", eventName,
                                             dst, addr, NoKey, 0)>>
                  /\ ret' = NoResult
                  /\ UNCHANGED <<input, attempt, current, states, handlers,
                                 startState>>

\* event.Err, as Event reads it in its return statements.
EventErrNil(event) == NoErr

EventErr(event) == heap[event].Err

\* event.canceled and event.async, as Event reads them after a handler.
NeverCanceled(event) == FALSE

Canceled(event) == heap[event].canceled

NeverAsync(event) == FALSE

Async(event) == heap[event].async

\* if event.canceled { ... } else if event.async { ... } after a leave_
\* handler: which of the two branches is taken, if any.
LeaveOutcomeAsyncFirst(event) ==
    IF Async(event) THEN "async"
    ELSE IF Canceled(event) THEN "canceled"
    ELSE "continue"

LeaveOutcome(event) ==
    IF Canceled(event) THEN "canceled"
    ELSE IF Async(event) THEN "async"
    ELSE "continue"

\* machine.startState = nil: what is stored in place of the closure ss.
Keep(ss) == ss

Discard(ss) == NilFunc

\* The statement after a before_ handler that did not cancel, or that is
\* not registered: the next handler, and after the general one the
\* assignment of the closure to machine.startState (a closure that was
\* stored there is dropped, and its Event object with it).
AfterBefore(f) ==
    IF f.pc \in {"before1", "before1ret"}
    THEN /\ stack' = SetTop(stack, [f EXCEPT !.pc = "before2"])
         /\ UNCHANGED <<startState, heap, trace, attempt>>
    ELSE LET stk == SetTop(stack, [f EXCEPT !.pc = "leave1"])
             ss == Closure(f.eventName, f.dst, f.event)
         IN  /\ stack' = stk
             /\ startState' = ss
             /\ heap' = Collect(heap, stk, ss)
             /\ trace' = Collect(trace, stk, ss)
             /\ attempt' = "started"

\* The lookup of a before_ handler, first the named then the general one.
EventBefore ==
    /\ stack # <<>>
    /\ UNCHANGED callbacks
    /\ Top.fn = "Event"
    /\ Top.pc \in {"before1", "before2"}
    /\ LET f == Top
           key == IF f.pc = "before1"
                  THEN handlerKey(f.eventName, beforeEvent)
                  ELSE handlerKey("", beforeEvent)
       IN  IF key \in DOMAIN handlers
           THEN /\ CallHandler(f, key, f.pc \o "ret")
                /\ UNCHANGED <<input, attempt, current, states, handlers,
                               startState, heap, ret>>
           ELSE /\ AfterBefore(f)
                /\ UNCHANGED <<input, current, states, handlers, ret>>

\* if event.canceled { return event.Err } after a before_ handler.
EventBeforeRet ==
    /\ stack # <<>>
    /\ UNCHANGED callbacks
    /\ Top.fn = "Event"
    /\ Top.pc \in {"before1ret", "before2ret"}
    /\ LET f == Top
       IN  IF Canceled(f.event)
           THEN EventReturn(f, EventErr(f.event),
                            IF f.pc = "before1ret" THEN 194 ELSE 200,
                            startState)
           ELSE /\ AfterBefore(f)
                /\ UNCHANGED <<input, current, states, handlers, ret>>

\* The statement after a leave_ handler that neither cancelled nor made the
\* transition asynchronous, or that is not registered.
AfterLeave(f) ==
    stack' = SetTop(stack, [f EXCEPT !.pc = IF f.pc \in {"leave1", "leave1ret"}
                                            THEN "leave2" ELSE "excute"])

\* The lookup of a leave_ handler, first the one of machine.current then
\* the general one.
EventLeave ==
    /\ stack # <<>>
    /\ UNCHANGED callbacks
    /\ Top.fn = "Event"
    /\ Top.pc \in {"leave1", "leave2"}
    /\ LET f == Top
           key == IF f.pc = "leave1"
                  THEN handlerKey(current, leaveState)
                  ELSE handlerKey("", leaveState)
       IN  IF key \in DOMAIN handlers
           THEN /\ CallHandler(f, key, f.pc \o "ret")
                /\ UNCHANGED <<input, attempt, current, states, handlers,
                               startState, heap, ret>>
           ELSE /\ AfterLeave(f)
                /\ UNCHANGED <<input, attempt, current, states, handlers,
                               startState, heap, trace, ret>>

\* if event.canceled { machine.startState = nil; return event.Err }
\* else if event.async { return event.Err } after a leave_ handler.
EventLeaveRet ==
    /\ stack # <<>>
    /\ UNCHANGED callbacks
    /\ Top.fn = "Event"
    /\ Top.pc \in {"leave1ret", "leave2ret"}
    /\ LET f == Top
           first == f.pc = "leave1ret"
           outcome == LeaveOutcome(f.event)
       IN  IF outcome = "canceled"
           THEN EventReturn(f, EventErr(f.event),
                            IF first THEN 230 ELSE 239, Discard(startState))
           ELSE IF outcome = "async"
           THEN EventReturn(f, EventErr(f.event),
                            IF first THEN 232 ELSE 241, startState)
           ELSE /\ AfterLeave(f)
                /\ UNCHANGED <<input, attempt, current, states, handlers,
                               startState, heap, trace, ret>>

\* ------------------------------------------------------------------------
\* Excute and the closure stored in machine.startState
\* ------------------------------------------------------------------------

\* Excute, from its first line to the call f.startState(): the check for a
\* nil closure, then the call.  stk is the caller's stack.  The frame of
\* Excute remembers which closure it called.
ExcuteCall(stk) ==
    IF startState = NilFunc
    THEN ReturnAtOnce(stk, Result("Excute", "", ErrNoTransition, FALSE, 260,
                                  current, FALSE, NoEvent, <<>>))
    ELSE /\ stack' = stk \o
                <<Frame("Excute", "clear", startState.eventName,
                        startState.dst, startState.event, NoKey, 0),
                  Frame("startState", "begin", startState.eventName,
                        startState.dst, startState.event, NoKey, 0)>>
         /\ ret' = NoResult
         /\ UNCHANGED <<input, attempt, current, states, handlers,
                        startState, heap, trace>>

\* f.startState = nil; return nil
ExcuteClear ==
    /\ stack # <<>>
    /\ UNCHANGED callbacks
    /\ Top.fn = "Excute"
    /\ Top.pc = "clear"
    /\ LET f == Top
       IN  /\ startState' = Discard(startState)
           /\ stack' = Pop
           /\ ret' = Result("Excute", f.eventName, NoErr, FALSE, 264, f.cur0,
                            f.pend0, heap[f.event], trace[f.event])
           /\ heap' = Collect(heap, Pop, Discard(startState))
           /\ trace' = Collect(trace, Pop, Discard(startState))
    /\ attempt' = "executed"
    /\ UNCHANGED <<input, current, states, handlers>>

\* machine.current = dst, the first statement of the closure.
StartStateBegin ==
    /\ stack # <<>>
    /\ UNCHANGED callbacks
    /\ Top.fn = "startState"
    /\ Top.pc = "begin"
    /\ current' = Top.dst
    /\ stack' = SetTop(stack, [Top EXCEPT !.pc = "enter1"])
    /\ UNCHANGED <<input, attempt, states, handlers, startState, heap, trace,
                   ret>>

\* The statement of the closure after the one at pc.
NextHandlerSkipsGeneral(pc) ==
    CASE pc = "enter1" -> "after1"
      [] pc = "enter2" -> "after1"
      [] pc = "after1" -> "after2"
      [] pc = "after2" -> "return"

NextHandler(pc) ==
    CASE pc = "enter1" -> "enter2"
      [] pc = "enter2" -> "after1"
      [] pc = "after1" -> "after2"
      [] pc = "after2" -> "return"

\* The key the closure looks up at pc: the enter_ handler of machine.current
\* and the general one, then the after_ handler of eventName and the
\* general one.
ClosureKeyGeneralFirst(f) ==
    CASE f.pc = "enter1" -> handlerKey("", enterState)
      [] f.pc = "enter2" -> handlerKey(current, enterState)
      [] f.pc = "after1" -> handlerKey("", afterEvent)
      [] f.pc = "after2" -> handlerKey(f.eventName, afterEvent)

ClosureKey(f) ==
    CASE f.pc = "enter1" -> handlerKey(current, enterState)
      [] f.pc = "enter2" -> handlerKey("", enterState)
      [] f.pc = "after1" -> handlerKey(f.eventName, afterEvent)
      [] f.pc = "after2" -> handlerKey("", afterEvent)

\* The lookup of an enter_ or after_ handler in the closure; nothing is
\* checked when the handler returns.
StartStateHandler ==
    /\ stack # <<>>
    /\ UNCHANGED callbacks
    /\ Top.fn = "startState"
    /\ Top.pc \in {"enter1", "enter2", "after1", "after2"}
    /\ LET f == Top
           key == ClosureKey(f)
       IN  IF key \in DOMAIN handlers
           THEN CallHandler(f, key, NextHandler(f.pc))
           ELSE /\ stack' = SetTop(stack, [f EXCEPT !.pc = NextHandler(f.pc)])
                /\ UNCHANGED trace
    /\ UNCHANGED <<input, attempt, current, states, handlers, startState,
                   heap, ret>>

\* The end of the closure.
StartStateReturn ==
    /\ stack # <<>>
    /\ UNCHANGED callbacks
    /\ Top.fn = "startState"
    /\ Top.pc = "return"
    /\ stack' = Pop
    /\ UNCHANGED <<input, attempt, current, states, handlers, startState,
                   heap, trace, ret>>

\* err := machine.Excute() at the end of Event.
EventExcute ==
    /\ stack # <<>>
    /\ UNCHANGED callbacks
    /\ Top.fn = "Event"
    /\ Top.pc = "excute"
    /\ ExcuteCall(SetTop(stack, [Top EXCEPT !.pc = "excuteret"]))

\* if err != nil { return internal error }; return event.Err
EventExcuteRet ==
    /\ stack # <<>>
    /\ UNCHANGED callbacks
    /\ Top.fn = "Event"
    /\ Top.pc = "excuteret"
    /\ IF ret.err # NoErr
       THEN EventReturn(Top, ErrInternal, 248, startState)
       ELSE EventReturn(Top, EventErr(Top.event), 251, startState)

\* ------------------------------------------------------------------------
\* Handlers: what a callback may do with the Event it is passed
\* ------------------------------------------------------------------------
InHandler == stack # <<>> /\ Top.fn = "handler"

\* event.Cancel().  Cancel on an Event that is already canceled changes
\* nothing, so only the first Cancel of an Event is a step.
HandlerCancelUndoes ==
    /\ InHandler
    /\ UNCHANGED callbacks
    /\ ~heap[Top.event].canceled
    /\ heap' = [heap EXCEPT ![Top.event].canceled = TRUE]
    /\ trace' = [trace EXCEPT ![Top.event][Top.idx].Cancel = TRUE]
    /\ current' = heap[Top.event].Src
    /\ UNCHANGED <<input, attempt, states, handlers, startState, stack, ret>>

HandlerCancel ==
    /\ InHandler
    /\ UNCHANGED callbacks
    /\ ~heap[Top.event].canceled
    /\ heap' = [heap EXCEPT ![Top.event].canceled = TRUE]
    /\ trace' = [trace EXCEPT ![Top.event][Top.idx].Cancel = TRUE]
    /\ UNCHANGED <<input, attempt, current, states, handlers, startState,
                   stack, ret>>

\* event.Async().  As for Cancel, only the first Async of an Event is a step.
HandlerAsync ==
    /\ InHandler
    /\ UNCHANGED callbacks
    /\ ~heap[Top.event].async
    /\ heap' = [heap EXCEPT ![Top.event].async = TRUE]
    /\ trace' = [trace EXCEPT ![Top.event][Top.idx].Async = TRUE]
    /\ UNCHANGED <<input, attempt, current, states, handlers, startState,
                   stack, ret>>

\* event.Err = err
HandlerSetErr(err) ==
    /\ InHandler
    /\ UNCHANGED callbacks
    /\ heap[Top.event].Err # err
    /\ heap' = [heap EXCEPT ![Top.event].Err = err]
    /\ UNCHANGED <<input, attempt, current, states, handlers, startState,
                   trace, stack, ret>>

\* The callback returns.
HandlerReturn ==
    /\ InHandler
    /\ UNCHANGED callbacks
    /\ stack' = Pop
    /\ UNCHANGED <<input, attempt, current, states, handlers, startState,
                   heap, trace, ret>>

\* event.StateMachine.Event(eventName) from inside a callback.
HandlerCallsEvent(eventName) ==
    /\ InHandler
    /\ callbacks < MaxCallbacks
    /\ callbacks' = callbacks + 1
    /\ EventCall(stack, eventName)

\* event.StateMachine.Excute() from inside a callback.
HandlerCallsExcute ==
    /\ InHandler
    /\ callbacks < MaxCallbacks
    /\ callbacks' = callbacks + 1
    /\ ExcuteCall(stack)

\* ------------------------------------------------------------------------
\* The caller of the machine
\* ------------------------------------------------------------------------

\* fsm.Event(eventName)
Event(eventName) ==
    /\ stack = <<>>
    /\ callbacks' = 0
    /\ EventCall(stack, eventName)

\* fsm.Excute()
Excute ==
    /\ stack = <<>>
    /\ callbacks' = 0
    /\ ExcuteCall(stack)

\* ------------------------------------------------------------------------
\* Specifications
\* ------------------------------------------------------------------------

\* Callbacks that keep to the Event object: they read it, set Err, Cancel
\* or Async, and return.
Next ==
    \/ \E e \in CallNames : Can(e)
    \/ \E e \in CallNames : Cannot(e)
    \/ \E e \in CallNames : Event(e)
    \/ Excute
    \/ EventBefore
    \/ EventBeforeRet
    \/ EventLeave
    \/ EventLeaveRet
    \/ EventExcute
    \/ EventExcuteRet
    \/ ExcuteClear
    \/ StartStateBegin
    \/ StartStateHandler
    \/ StartStateReturn
    \/ HandlerCancel
    \/ HandlerAsync
    \/ \E err \in HandlerErrs \cup {NoErr} : HandlerSetErr(err)
    \/ HandlerReturn

Spec == Init /\ [][Next]_vars

\* Callbacks that also call back into the machine through
\* event.StateMachine.
NextReentrant ==
    \/ Next
    \/ \E e \in CallNames : HandlerCallsEvent(e)
    \/ HandlerCallsExcute

SpecReentrant == InitReentrant /\ [][NextReentrant]_vars

TypeOK ==
    /\ current \in AllStates(input.events) \cup {input.initial}
    /\ DOMAIN heap = DOMAIN trace
    /\ Live(stack, startState) = DOMAIN heap

\* ------------------------------------------------------------------------
\* The construction on its own
\* ------------------------------------------------------------------------

\* Before the call of NewStateMachine: the arguments are chosen, there is
\* no machine yet.
InitConstruct ==
    /\ input \in ConstructInputs
    /\ current = ""
    /\ states = EmptyMap
    /\ handlers = EmptyMap
    /\ startState = NilFunc
    /\ heap = EmptyMap
    /\ trace = EmptyMap
    /\ stack = <<>>
    /\ ret = NoResult
    /\ callbacks = 0
    /\ attempt = "none"

\* The call of NewStateMachine: it returns the machine and nothing else,
\* there is no error result and no statement that panics.
Construct ==
    /\ ret.op = ""
    /\ current' = input.initial
    /\ states' = BuildStates(EmptyMap, input.events, 1)
    /\ handlers' \in Registries(input.names, input.events)
    /\ ret' = Result("NewStateMachine", "", NoErr, TRUE, 121, "", FALSE,
                     NoEvent, <<>>)
    /\ UNCHANGED <<input, startState, heap, trace, stack, callbacks,
                   attempt>>

NextConstruct == Construct

SpecConstruct == InitConstruct /\ [][NextConstruct]_vars

\* ------------------------------------------------------------------------
\* Properties
\* ------------------------------------------------------------------------

\* The caller has control: no call is running, and ret is what the last
\* call returned.
Idle == stack = <<>>

\* The handlers an Event object was passed to, in order: the registry key
\* and machine.current as the handler found it.
KeysAt(calls) == [i \in 1..Len(calls) |-> <<calls[i].key, calls[i].at>>]

\* Handler types of the invocations.
TypesOf(calls) == {calls[i].key[2] : i \in 1..Len(calls)}

\* A handler of one of the types called Cancel, resp. Async.
CancelIn(calls, types) ==
    \E i \in 1..Len(calls) : calls[i].Cancel /\ calls[i].key[2] \in types

AsyncIn(calls, types) ==
    \E i \in 1..Len(calls) : calls[i].Async /\ calls[i].key[2] \in types

\* The eight keys of a transition, in the documented order, each with the
\* state its handler is to observe.
EightCalls(e) ==
    << <<handlerKey(e.Name, beforeEvent), e.Src>>,
       <<handlerKey("", beforeEvent), e.Src>>,
       <<handlerKey(e.Src, leaveState), e.Src>>,
       <<handlerKey("", leaveState), e.Src>>,
       <<handlerKey(e.Dst, enterState), e.Dst>>,
       <<handlerKey("", enterState), e.Dst>>,
       <<handlerKey(e.Name, afterEvent), e.Dst>>,
       <<handlerKey("", afterEvent), e.Dst>> >>

IsRegistered(call) == call[1] \in DOMAIN handlers

AllPhasesRegistered(e) ==
    \A i \in 1..8 : IsRegistered(EightCalls(e)[i])

\* C1: an Event that completes synchronously, with no handler cancelling
\* or deferring, on a transition with the named and the general handler
\* registered at every phase, has invoked exactly the eight handlers once
\* each in the documented order; the before_ and leave_ handlers found
\* machine.current at the source, the enter_ and after_ handlers at the
\* destination, where it is when Event returns.
C1_HandlerOrder ==
    ( /\ Idle
      /\ ret.op = "Event"
      /\ ret.line = 251
      /\ ~CancelIn(ret.calls, 1..4)
      /\ ~AsyncIn(ret.calls, 1..4)
      /\ AllPhasesRegistered(ret.event) )
    => /\ KeysAt(ret.calls) = EightCalls(ret.event)
       /\ ret.cur0 = ret.event.Src
       /\ current = ret.event.Dst

C1_Witness ==
    /\ Idle
    /\ ret.op = "Event"
    /\ ret.line = 251
    /\ ~CancelIn(ret.calls, 1..4)
    /\ ~AsyncIn(ret.calls, 1..4)
    /\ AllPhasesRegistered(ret.event)
    /\ Len(ret.calls) = 8
    /\ current = "end"

\* C2: when a before_ or leave_ handler called Cancel, then as Event
\* returns machine.current is what it was at the call, no transition is
\* pending, the cancelling handler is the last one invoked (no enter_ or
\* after_ handler ran) and Event returns event.Err.
C2_CancelKeepsState ==
    ( /\ Idle
      /\ ret.op = "Event"
      /\ CancelIn(ret.calls, {beforeEvent, leaveState}) )
    => /\ current = ret.cur0
       /\ startState = NilFunc
       /\ ret.calls[Len(ret.calls)].Cancel
       /\ TypesOf(ret.calls) \cap {enterState, afterEvent} = {}
       /\ ret.err = ret.event.Err

C2_Witness ==
    /\ Idle
    /\ ret.op = "Event"
    /\ ret.line = 239
    /\ Len(ret.calls) = 4
    /\ ret.calls[4].Cancel
    /\ ret.err = "error"
    /\ AllPhasesRegistered(ret.event)
    /\ current = "start"

\* The enter_ and after_ handlers that are registered for the transition,
\* in the documented order.
EnterAfterCalls(e) == SelectSeq(SubSeq(EightCalls(e), 5, 8), IsRegistered)

\* What the closure of a deferred transition added to the invocations.
AfterDefer(calls) ==
    LET i == CHOOSE j \in 1..Len(calls) : calls[j].Async
    IN  SubSeq(KeysAt(calls), i + 1, Len(calls))

DeferredByLeave(calls) ==
    /\ AsyncIn(calls, {leaveState})
    /\ ~CancelIn(calls, {beforeEvent, leaveState})

\* C3: when a leave_ handler called Async and none cancelled, then as Event
\* returns machine.current is still the source, no enter_ or after_ handler
\* has run and the transition is pending; as the following Excute returns,
\* machine.current is the destination the table gave at the Event call, the
\* registered enter_ and after_ handlers have run once each in order, and
\* no transition is pending.
C3_DeferThenExcute ==
    /\ ( /\ Idle
         /\ ret.op = "Event"
         /\ DeferredByLeave(ret.calls) )
       => /\ ret.line \in {232, 241}
          /\ current = ret.cur0
          /\ current = ret.event.Src
          /\ TypesOf(ret.calls) \cap {enterState, afterEvent} = {}
          /\ startState # NilFunc
          /\ startState.dst = states[stateKey(ret.eventName, ret.cur0)]
    /\ ( /\ Idle
         /\ ret.op = "Excute"
         /\ ret.line = 264
         /\ DeferredByLeave(ret.calls) )
       => /\ ret.cur0 = ret.event.Src
          /\ current = states[stateKey(ret.event.Name, ret.event.Src)]
          /\ AfterDefer(ret.calls) = EnterAfterCalls(ret.event)
          /\ startState = NilFunc

C3_Witness ==
    /\ Idle
    /\ ret.op = "Excute"
    /\ ret.line = 264
    /\ DeferredByLeave(ret.calls)
    /\ AllPhasesRegistered(ret.event)
    /\ Len(AfterDefer(ret.calls)) = 4
    /\ current = "end"

\* C4: while a deferred transition is pending, Event fails for every event
\* name with the error of the busy check, invokes no handler and leaves
\* machine.current and the pending transition as they are; only Excute
\* ends the pending transition.
C4_RejectedWhilePending ==
    [][ /\ \A e \in CallNames :
              (startState # NilFunc /\ Event(e))
              => /\ ret'.op = "Event"
                 /\ ret'.err = ErrInProgress(e)
                 /\ ret'.calls = <<>>
                 /\ stack' = <<>>
                 /\ UNCHANGED <<current, startState, heap, trace>>
        /\ (attempt = "deferred" /\ startState' # startState)
              => /\ stack[1].fn = "Excute"
                 /\ Top.fn = "Excute"
                 /\ startState' = NilFunc
      ]_vars

C4_Witness ==
    /\ Idle
    /\ ret.op = "Event"
    /\ ret.eventName = "stay"
    /\ ret.pend0
    /\ ret.err = ErrInProgress("stay")
    /\ startState # NilFunc
    /\ attempt = "deferred"

InFlight ==
    \/ \E i \in 1..Len(stack) : stack[i].fn = "Event"
    \/ startState # NilFunc

\* C6: at most one transition is in flight: an Event called while an
\* attempt is in flight, also by a handler of that attempt, fails with the
\* error of the busy check and changes neither machine.current nor the
\* attempt in flight.
C6_OneInFlight ==
    [][ \A e \in CallNames :
           (InFlight /\ (Event(e) \/ HandlerCallsEvent(e)))
           => /\ ret'.op = "Event"
              /\ ret'.err = ErrInProgress(e)
              /\ UNCHANGED <<current, startState, stack, heap, trace>>
      ]_vars

GeneralRegistered ==
    {handlerKey("", t) : t \in 1..4} \subseteq DOMAIN handlers

\* C8: with no transition pending, Event for an event whose destination
\* from machine.current is machine.current returns nil, invokes no handler,
\* leaves machine.current and creates no pending transition.
C8_SameStateNoHandlers ==
    [][ \A e \in CallNames :
           ( /\ startState = NilFunc
             /\ stateKey(e, current) \in DOMAIN states
             /\ states[stateKey(e, current)] = current
             /\ Event(e) )
           => /\ ret'.op = "Event"
              /\ ret'.err = NoErr
              /\ ret'.calls = <<>>
              /\ stack' = <<>>
              /\ startState' = NilFunc
              /\ UNCHANGED <<current, heap, trace>>
      ]_vars

C8_Witness ==
    /\ Idle
    /\ ret.op = "Event"
    /\ ret.eventName = "stay"
    /\ ret.line = 185
    /\ ret.err = NoErr
    /\ GeneralRegistered
    /\ current = "start"

\* C9: Can(event) is true iff the table has an entry for the event and
\* machine.current and no transition is pending; Cannot(event) is its
\* negation; neither changes machine.current or the pending slot.
C9_CanIffEntryAndIdle ==
    [][ \A e \in CallNames :
           /\ Can(e)
              => /\ ret'.ok <=> ( /\ <<e, current>> \in DOMAIN states
                                  /\ startState = NilFunc )
                 /\ UNCHANGED <<current, startState>>
           /\ Cannot(e)
              => /\ ret'.ok <=> ~( /\ <<e, current>> \in DOMAIN states
                                   /\ startState = NilFunc )
                 /\ UNCHANGED <<current, startState>>
      ]_vars

C9_Witness ==
    /\ Idle
    /\ ret.op = "Can"
    /\ ~ret.ok
    /\ ret.pend0
    /\ stateKey(ret.eventName, current) \in DOMAIN states

\* C10: Excute with no transition pending fails with the error of its nil
\* check, invokes no handler and leaves machine.current; and Excute
\* returns an error in no other case.
C10_ExcuteNothingPending ==
    /\ [][ (startState = NilFunc /\ Excute)
           => /\ ret'.op = "Excute"
              /\ ret'.err = "startState inappropriate because no state "
                              \o "change in progress"
              /\ stack' = <<>>
              /\ UNCHANGED <<current, startState, heap, trace>>
         ]_vars
    /\ []( (Idle /\ ret.op = "Excute" /\ ret.err # NoErr) => ~ret.pend0 )

C10_Witness ==
    /\ Idle
    /\ ret.op = "Excute"
    /\ ret.line = 260
    /\ ~ret.pend0
    /\ ret.err # NoErr
    /\ GeneralRegistered
    /\ current = "end"

\* C11: an Event that runs to its last return statement returns event.Err
\* as the handlers left it: an Event object starts with Err nil, only a
\* statement of a handler that was passed the object writes Err, and the
\* value returned is the one Err holds at the return; machine.current is
\* then the destination, whether or not the returned error is nil.
C11_ReturnsEventErr ==
    /\ []( (Idle /\ ret.op = "Event" /\ ret.line = 251)
            => /\ ret.err = ret.event.Err
               /\ ret.event.Src = ret.cur0
               /\ ret.event.Dst = states[stateKey(ret.eventName, ret.cur0)]
               /\ current = ret.event.Dst )
    /\ [][ \A a \in DOMAIN heap' :
              IF a \in DOMAIN heap
              THEN heap'[a].Err # heap[a].Err
                   => /\ InHandler
                      /\ Top.event = a
                      /\ stack' = stack
              ELSE heap'[a].Err = NoErr
         ]_vars

C11_Witness ==
    /\ Idle
    /\ ret.op = "Event"
    /\ ret.line = 251
    /\ ret.err = "error"
    /\ ret.cur0 = "start"
    /\ current = "end"

\* C12: an Excute that found a transition pending has run its closure,
\* has cleared machine.startState, and returns the Err of the Event object
\* of that transition, so that an error set by an enter_ or after_ handler
\* reaches the caller of Excute.
C12_ExcuteReturnsEventErr ==
    (Idle /\ ret.op = "Excute" /\ ret.pend0)
    => /\ startState = NilFunc
       /\ current = ret.event.Dst
       /\ ret.err = ret.event.Err

\* C13: Event never returns the internal error of line 248, whatever the
\* handlers do with the Event object and with the machine it refers to,
\* calls of Event and Excute included.
C13_NeverInternalError ==
    (ret.op = "Event") => (ret.err # ErrInternal /\ ret.line # 248)

\* C14: an Event ends deferred (it returns at the async check of its leave
\* phase, the transition pending) only if a leave_ handler of that attempt
\* called Async; an Async called by a before_ handler does not defer the
\* transition.
C14_DeferOnlyInLeave ==
    (Idle /\ ret.op = "Event" /\ ret.line \in {232, 241})
    => AsyncIn(ret.calls, {leaveState})

\* A leave_ handler was the last handler invoked and the Event object had
\* both flags set as it returned.
BothFlagsAtLeave(result) ==
    /\ result.op = "Event"
    /\ result.event.canceled
    /\ result.event.async
    /\ result.calls # <<>>
    /\ result.calls[Len(result.calls)].key[2] = leaveState

\* C18: when a leave_ handler returns with canceled and async both set,
\* the attempt is cancelled: Event returns from the canceled branch, the
\* closure is discarded, machine.current is unchanged, and an Excute that
\* follows fails with the error of its nil check.
C18_CancelBeatsAsync ==
    /\ []( (Idle /\ BothFlagsAtLeave(ret))
            => /\ ret.line \in {230, 239}
               /\ startState = NilFunc
               /\ current = ret.cur0 )
    /\ [][ (Idle /\ BothFlagsAtLeave(ret) /\ Excute)
           => /\ ret'.op = "Excute"
              /\ ret'.err = ErrNoTransition
              /\ ret'.err # NoErr
              /\ UNCHANGED current
         ]_vars

C18_Witness ==
    /\ Idle
    /\ BothFlagsAtLeave(ret)
    /\ CancelIn(ret.calls, {leaveState})
    /\ AsyncIn(ret.calls, {leaveState})
    /\ ret.cur0 = "start"
    /\ current = "start"

\* The invocations of one attempt: once the leave_ handler of a state has
\* called Cancel or Async, the general leave_ handler is not among them,
\* and the invocations that follow are of enter_ and after_ handlers.
SpecificLeaveEnds(calls) ==
    \A i \in 1..Len(calls) :
        ( /\ calls[i].key[2] = leaveState
          /\ calls[i].key[1] # ""
          /\ calls[i].Cancel \/ calls[i].Async )
        => /\ \A j \in 1..Len(calls) :
                  calls[j].key # handlerKey("", leaveState)
           /\ \A j \in (i + 1)..Len(calls) :
                  calls[j].key[2] \in {enterState, afterEvent}

\* C19: with the leave_ handler of the source state and the general
\* leave_ handler both registered, when the former cancels or defers the
\* latter is not invoked for that attempt, neither before Event returns
\* nor by a later Excute, which invokes enter_ and after_ handlers only.
C19_GeneralLeaveSkipped ==
    /\ \A a \in DOMAIN trace : SpecificLeaveEnds(trace[a])
    /\ SpecificLeaveEnds(ret.calls)

C19_Witness ==
    /\ Idle
    /\ ret.op = "Excute"
    /\ ret.line = 264
    /\ GeneralRegistered
    /\ handlerKey("start", leaveState) \in DOMAIN handlers
    /\ \E i \in 1..Len(ret.calls) :
          /\ ret.calls[i].key = handlerKey("start", leaveState)
          /\ ret.calls[i].Async
          /\ Len(ret.calls) > i

\* The destinations of the descriptors.
Destinations == {input.events[i].Dst : i \in DOMAIN input.events}

\* C20: with handlers that do not call back into the machine, every
\* change of machine.current is made by the closure of a transition, from
\* the state s that was current when its Event was called to the table's
\* entry for that event and s; no other change happened since the call of
\* Event or Excute that runs the closure began, and machine.current is
\* always the initial state or the destination of a descriptor.
C20_ChangesFollowTable ==
    /\ [](current \in {input.initial} \cup Destinations)
    /\ [][ current' # current
           => /\ stack # <<>>
              /\ Top.fn = "startState"
              /\ stack[1].cur0 = current
              /\ LET e == heap[Top.event]
                 IN  /\ e.Src = current
                     /\ stateKey(e.Name, e.Src) \in DOMAIN states
                     /\ current' = states[stateKey(e.Name, e.Src)]
                     /\ current' = e.Dst
         ]_vars

C20_Witness ==
    /\ Idle
    /\ ret.op = "Excute"
    /\ ret.line = 264
    /\ ret.pend0
    /\ ret.cur0 = "start"
    /\ current = "end"

\* NewStateMachine has returned.
Constructed == ret.op = "NewStateMachine"

\* The (event, source) pairs of a descriptor list, and for a pair the
\* last descriptor of the list that has it.
PairsOf(events) ==
    UNION {{<<events[i].Name, events[i].Src[j]>> :
                j \in DOMAIN events[i].Src} : i \in DOMAIN events}

HasPair(desc, pair) ==
    /\ desc.Name = pair[1]
    /\ \E j \in DOMAIN desc.Src : desc.Src[j] = pair[2]

LastWith(events, pair) ==
    CHOOSE i \in DOMAIN events :
        /\ HasPair(events[i], pair)
        /\ \A k \in DOMAIN events : HasPair(events[k], pair) => k <= i

\* A descriptor with N sources written as N descriptors with one source.
RECURSIVE SingleSource(_)
SingleSource(events) ==
    IF events = <<>> THEN <<>>
    ELSE LET d == events[1]
         IN  [j \in DOMAIN d.Src |-> EventDesc(d.Name, <<d.Src[j]>>, d.Dst)]
             \o SingleSource(Tail(events))

\* C15: machine.states has exactly the (event, source) pairs of the
\* descriptor list, each with the destination of the last descriptor that
\* has the pair; and it is the table of the list in which every
\* descriptor with N sources is replaced by N descriptors with one source.
C15_TableLastWins ==
    Constructed
    => /\ DOMAIN states = PairsOf(input.events)
       /\ \A pair \in PairsOf(input.events) :
             states[pair] = input.events[LastWith(input.events, pair)].Dst
       /\ states = BuildStates(EmptyMap, SingleSource(input.events), 1)

C15_Witness ==
    /\ Constructed
    /\ input.events = << EventDesc("go", <<"s", "t">>, "t"),
                         EventDesc("go", <<"s">>, "s") >>
    /\ states[stateKey("go", "s")] = "s"
    /\ states[stateKey("go", "t")] = "t"

\* Every name that is a source or the destination of a descriptor.
NamedStates(events) ==
    {events[i].Dst : i \in DOMAIN events}
    \cup UNION {{events[i].Src[j] : j \in DOMAIN events[i].Src} :
                   i \in DOMAIN events}

\* The naming rules: prefix, general word, set of known targets, phase.
NamingRules(events) ==
    { <<"before_", "event", AllEvents(events), beforeEvent>>,
      <<"leave_", "state", NamedStates(events), leaveState>>,
      <<"enter_", "state", NamedStates(events), enterState>>,
      <<"after_", "event", AllEvents(events), afterEvent>> }

\* The keys a raw name is to be registered under by the naming rules: one
\* key, or none.
KeysByRule(name, events) ==
    LET hits == {r \in NamingRules(events) : HasPrefix(name, r[1])}
    IN  IF hits # {}
        THEN UNION { LET rest == SubSeq(name, Len(r[1]) + 1, Len(name))
                     IN  IF rest = r[2] THEN {<<"", r[4]>>}
                         ELSE IF rest \in r[3] THEN {<<rest, r[4]>>}
                         ELSE {} : r \in hits }
        ELSE IF name \in NamedStates(events) THEN {<<name, enterState>>}
        ELSE IF name \in AllEvents(events) THEN {<<name, afterEvent>>}
        ELSE {}

\* C16: machine.handlers has exactly the keys the naming rules give for
\* the raw names of the Handlers map, each key holding the callback of a
\* raw name the rules resolve to it; the known event names are the names
\* of all descriptors and the known state names are all names that are a
\* source or a destination of a descriptor.
C16_RegisteredByRule ==
    Constructed
    => /\ DOMAIN handlers
            = UNION {KeysByRule(n, input.events) : n \in input.names}
       /\ \A k \in DOMAIN handlers :
             /\ handlers[k] \in input.names
             /\ k \in KeysByRule(handlers[k], input.events)

\* Two raw names of the Handlers map resolve to the same registry key.
Collision ==
    \E n1, n2 \in input.names :
        /\ n1 # n2
        /\ KeyOf(n1, input.events) = KeyOf(n2, input.events)
        /\ KeyOf(n1, input.events) \in DOMAIN handlers

\* C17: when two raw names resolve to the same key, NewStateMachine
\* reports it: the construction does not end as one without collision
\* does, with one of the two callbacks silently dropped.
C17_CollisionReported ==
    (Constructed /\ Collision) => ret.err # NoErr

\* The enter_ and after_ invocations among the invocations of an attempt.
ClosureCalls(calls) ==
    SelectSeq(KeysAt(calls),
              LAMBDA c : c[1][2] \in {enterState, afterEvent})

\* C21: a Cancel called by an enter_ or after_ handler changes nothing of
\* the transition: while the closure runs after its first statement
\* machine.current is the destination, and when the call that ran the
\* closure (Event, or Excute for a deferred transition) returns,
\* machine.current is the destination, every registered enter_ and after_
\* handler of the transition has been invoked, in order, and no
\* transition is pending.
C21_CancelInClosureIgnored ==
    /\ \A i \in DOMAIN stack :
          (stack[i].fn = "startState" /\ stack[i].pc # "begin")
          => current = stack[i].dst
    /\ ( /\ Idle
         /\ ret.op \in {"Event", "Excute"}
         /\ ret.line \in {251, 264}
         /\ CancelIn(ret.calls, {enterState, afterEvent}) )
       => /\ current = ret.event.Dst
          /\ startState = NilFunc
          /\ ClosureCalls(ret.calls) = EnterAfterCalls(ret.event)

C21_Witness ==
    /\ Idle
    /\ ret.op = "Excute"
    /\ ret.line = 264
    /\ CancelIn(ret.calls, {enterState})
    /\ AllPhasesRegistered(ret.event)
    /\ Len(ClosureCalls(ret.calls)) = 4
    /\ current = "end"

====
